---- MODULE Spec2Model ----
(***************************************************************************)
(* A model of rhaisdl's bridge between a Rhai script and SDL3              *)
(* (src/src/lib.rs, src/src/snake.rs).                                     *)
(*                                                                         *)
(* One SDLContext sits behind an Arc<Mutex<..>>.  Every function that      *)
(* register_sdl_module registers is a closure of the same shape:           *)
(*     handle.lock().map_err(..)?  .<method>(args)  .map_err(..)           *)
(* A bridged call is modelled in the three positions that expression goes  *)
(* through: `lock` (the guard is taken), the SDLContext method (one action *)
(* per method), and `bridge_return` (the method's result is translated and *)
(* the guard, a temporary of the expression, is dropped).  The script is   *)
(* single threaded, so exactly one call is in flight at a time.            *)
(*                                                                         *)
(* The SDL3 backend is an external collaborator: where the source handles  *)
(* a backend failure (every `map_err(|e| e.to_string())?`) the model draws *)
(* the backend's answer with \E.  `Window::into_canvas` (lib.rs:39) has no *)
(* error channel in its type, so a failure to create the renderer can only *)
(* unwind; that is the one place where a panic happens while the guard is  *)
(* held, and it is what poisons the mutex.  A host that catches the unwind *)
(* can go on calling, which is the situation the poisoned-lock branch of   *)
(* every closure is written for.                                           *)
(***************************************************************************)
EXTENDS Integers, Sequences, FiniteSets, TLC

\* -------------------------------------------------------------- bounds
\* The number of windows the backend will create before it only fails.
MaxWindows == 2
\* The number of event pumps the backend will hand out before it only fails.
MaxPumps == 2
\* The number of events that can be pending at once.
MaxQueue == 2
\* rand's arguments are drawn from RandLo..RandHi.
RandHi == 2

\* Option::None of the three optional fields; the ids of windows and pumps
\* start at 1.
None == 0

\* ------------------------------------------------------------- strings
\* A Rust &str is a sequence of one-character strings.
Letters == <<"a", "c", "d", "e", "f", "g", "h", "i", "l", "m", "n", "o", "p",
             "r", "s", "t", "u", "w">>
Capitals == <<"A", "C", "D", "E", "F", "G", "H", "I", "L", "M", "N", "O", "P",
              "R", "S", "T", "U", "W">>

\* char::to_lowercase on the model's alphabet.
LowerChar(c) ==
    IF \E i \in 1..Len(Capitals) : Capitals[i] = c
    THEN Letters[CHOOSE i \in 1..Len(Capitals) : Capitals[i] = c]
    ELSE c

\* A bug to_lowercase could have: the name is matched as it was written.
to_lowercase_as_written(s) == s

\* str::to_lowercase: every character is lowered, the length is kept.
to_lowercase(s) == [i \in 1..Len(s) |-> LowerChar(s[i])]

\* The names the two match expressions accept.
KeyNames == { <<"s", "p", "a", "c", "e">>,
              <<"l", "e", "f", "t">>,
              <<"r", "i", "g", "h", "t">>,
              <<"u", "p">>,
              <<"d", "o", "w", "n">> }
ButtonNames == { <<"l", "e", "f", "t">>,
                 <<"r", "i", "g", "h", "t">>,
                 <<"m", "i", "d", "d", "l", "e">> }

\* ------------------------------------------------------------- results
\* Result<T, String> of an SDLContext method and Result<T, Box<EvalAltResult>>
\* of a registered closure.  An error carries its message as the fixed text
\* and the formatted argument ("Unsupported key: {}" has both).
NoResult == [tag |-> "None", val |-> <<>>, msg |-> "", arg |-> <<>>]
Ok(v) == [tag |-> "Ok", val |-> v, msg |-> "", arg |-> <<>>]
Err(m, a) == [tag |-> "Err", val |-> <<>>, msg |-> m, arg |-> a]
ErrorRuntime(m, a) == [tag |-> "ErrorRuntime", val |-> <<>>, msg |-> m, arg |-> a]
Panicked == [tag |-> "Panic", val |-> <<>>, msg |-> "", arg |-> <<>>]
Unit == <<"unit">>
BoolV(b) == <<"bool", b>>
IntV(n) == <<"int", n>>
PairV(x, y) == <<"pair", x, y>>

CanvasMsg == "Canvas not initialized"
PumpMsg == "Event pump not initialized"
KeyMsg == "Unsupported key: "
ButtonMsg == "Unsupported mouse button: "
\* The text of the backend's own error, `e.to_string()`.
BackendMsg == "backend error"
\* PoisonError's Display text.
PoisonMsg == "poisoned lock: another task failed inside"

\* -------------------------------------------------------------- inputs
\* Every upper/lower-case spelling of a name.
CaseVariants(name) ==
    { [i \in 1..Len(name) |->
          IF i \in U
          THEN Capitals[CHOOSE k \in 1..Len(Letters) : Letters[k] = name[i]]
          ELSE name[i]] : U \in SUBSET (1..Len(name)) }

\* Strings that are no spelling of a supported key or button: the empty
\* string, a prefix, a name with one more character, other words.
OtherStrings == { <<>>,
                  <<"l", "e", "f">>,
                  <<"U", "p", "s">>,
                  <<"e", "n", "t", "e", "r">>,
                  <<" ", "u", "p">>,
                  <<"1">> }

\* The strings a script passes to is_key_down: every spelling of every key
\* name, the other strings, and two button names that are no key names.
KeyArgs == UNION { CaseVariants(n) : n \in KeyNames }
           \cup OtherStrings
           \cup { <<"m", "i", "d", "d", "l", "e">>, <<"M", "i", "d", "d", "l", "e">> }
\* The strings a script passes to is_mouse_button_down, likewise.
ButtonArgs == UNION { CaseVariants(n) : n \in ButtonNames }
              \cup OtherStrings
              \cup { <<"s", "p", "a", "c", "e">>, <<"U", "P">> }

RandLo == 1 - RandHi
RandArgs == { <<lo, hi>> : lo \in RandLo..RandHi, hi \in RandLo..RandHi }

Events == {"Quit", "Other"}
Scancodes == {"Space", "Left", "Right", "Up", "Down"}
MouseButtons == {"Left", "Right", "Middle"}
\* Cursor coordinates the backend may report.
Coords == {0, 7}

DrawOps == {"set_draw_color", "clear", "draw_rect", "fill_rect", "draw_point",
            "draw_line", "present"}
InputOps == {"poll_event", "is_key_down", "is_mouse_button_down",
             "get_mouse_position"}
PlainOps == DrawOps \cup {"create_window", "init_event_pump", "poll_event",
                          "get_mouse_position", "delay"}

\* The calls a script can make of the closures that take the lock.
Calls == { [op |-> o, arg |-> <<>>] : o \in PlainOps }
         \cup { [op |-> "is_key_down", arg |-> k] : k \in KeyArgs }
         \cup { [op |-> "is_mouse_button_down", arg |-> b] : b \in ButtonArgs }

\* --------------------------------------------------------------- state
VARIABLES
    window,        \* SDLContext.window: None or the id of the stored window
    canvas,        \* SDLContext.canvas: None or the id of the window it draws on
    event_pump,    \* SDLContext.event_pump: None or the id of the stored pump
    created,       \* backend: windows built so far (the last id handed out)
    pumps,         \* backend: event pumps handed out so far
    queue,         \* backend: the pending events, oldest first
    target,        \* backend: the surface the last drawing call acted on
    backend,       \* backend: its answer to the last call made of it
    poisoned,      \* Mutex: the poison flag
    lockHeld,      \* Mutex: a guard is alive
    pc,            \* the position of the call in flight
    cur,           \* the call in flight: its name and argument (the argument is
                   \* gone once the closure has returned)
    ret,           \* what the SDLContext method returned
    out,           \* what the registered closure returned to the script
    acquisitions,  \* lock() calls of the call in flight
    hwCalls,       \* SDLContext methods entered by the call in flight
    releases       \* guards dropped by the call in flight

ctx == <<window, canvas, event_pump>>
sdl == <<created, pumps, queue, target>>
mutex == <<poisoned, lockHeld>>
counts == <<acquisitions, hwCalls, releases>>
vars == <<window, canvas, event_pump, created, pumps, queue, target, backend,
          poisoned, lockHeld, pc, cur, ret, out, acquisitions, hwCalls, releases>>

\* SDLContext::new and Arc::new(Mutex::new(..)): nothing is created yet.
Init ==
    /\ window = None
    /\ canvas = None
    /\ event_pump = None
    /\ created = 0
    /\ pumps = 0
    /\ queue = <<>>
    /\ target = None
    /\ backend = "none"
    /\ poisoned = FALSE
    /\ lockHeld = FALSE
    /\ pc = "idle"
    /\ cur = [op |-> "none", arg |-> <<>>]
    /\ ret = NoResult
    /\ out = NoResult
    /\ acquisitions = 0
    /\ hwCalls = 0
    /\ releases = 0

\* ------------------------------------------------------------- the lock
\* `sdl_context_clone.lock()`: the script calls a registered closure, which
\* takes the guard.  std's Mutex hands the guard out on a poisoned lock too,
\* inside the PoisonError.  A held lock blocks the caller.
lock(c) ==
    /\ pc = "idle"
    /\ ~lockHeld
    /\ lockHeld' = TRUE
    /\ pc' = "locked"
    /\ cur' = c
    /\ ret' = NoResult
    /\ out' = NoResult
    /\ backend' = "none"
    /\ acquisitions' = 1
    /\ hwCalls' = 0
    /\ releases' = 0
    /\ UNCHANGED <<ctx, sdl, poisoned>>

\* `.map_err(|e| ErrorRuntime(e.to_string()))?` on a poisoned lock: the error
\* (and the guard in it) is dropped, the closure returns the runtime error and
\* the SDLContext method is not reached.
lock_failed ==
    /\ pc = "locked"
    /\ poisoned
    /\ out' = ErrorRuntime(PoisonMsg, <<>>)
    /\ lockHeld' = FALSE
    /\ releases' = releases + 1
    /\ pc' = "idle"
    /\ cur' = [op |-> cur.op, arg |-> <<>>]
    /\ UNCHANGED <<ctx, sdl, backend, poisoned, ret, acquisitions, hwCalls>>

\* A bug the closures could have: a poisoned lock is recovered from
\* (`unwrap_or_else(|e| e.into_inner())`) and the method is entered anyway.
Entered_recovering(op) ==
    /\ pc = "locked"
    /\ cur.op = op

\* The guard was obtained: the closure goes on to the method named by `op`.
Entered(op) ==
    /\ pc = "locked"
    /\ ~poisoned
    /\ cur.op = op

\* What every method does besides its own effect: it has been entered once and
\* has returned `r` to the closure, which still holds the guard.
Returns(r) ==
    /\ ret' = r
    /\ hwCalls' = hwCalls + 1
    /\ pc' = "called"
    /\ UNCHANGED <<mutex, cur, out, acquisitions, releases>>

\* A bug the closures could have: the guard outlives a call that failed.
bridge_return_keeping_guard ==
    /\ pc = "called"
    /\ out' = IF ret.tag = "Err" THEN ErrorRuntime(ret.msg, ret.arg) ELSE ret
    /\ lockHeld' = (ret.tag = "Err")
    /\ releases' = IF ret.tag = "Err" THEN releases ELSE releases + 1
    /\ pc' = "idle"
    /\ cur' = [op |-> cur.op, arg |-> <<>>]
    /\ UNCHANGED <<ctx, sdl, backend, poisoned, ret, acquisitions, hwCalls>>

\* `.map_err(|e| ErrorRuntime(e))` and the end of the closure: an Err(String)
\* becomes a runtime error with the same message, an Ok is passed on, and the
\* guard is dropped.
bridge_return ==
    /\ pc = "called"
    /\ out' = IF ret.tag = "Err" THEN ErrorRuntime(ret.msg, ret.arg) ELSE ret
    /\ lockHeld' = FALSE
    /\ releases' = releases + 1
    /\ pc' = "idle"
    /\ cur' = [op |-> cur.op, arg |-> <<>>]
    /\ UNCHANGED <<ctx, sdl, backend, poisoned, ret, acquisitions, hwCalls>>

\* ---------------------------------------------------- SDLContext methods
\* A bug create_window could have: the old canvas is taken out of the field
\* before the new window is built, so a failure leaves no canvas.
create_window_taking_canvas ==
    /\ Entered("create_window")
    /\ \/ /\ backend' = "err"
          /\ canvas' = None
          /\ Returns(Err(BackendMsg, <<>>))
          /\ UNCHANGED <<window, event_pump, sdl>>
       \/ /\ created < MaxWindows
          /\ backend' = "ok"
          /\ created' = created + 1
          /\ window' = created + 1
          /\ canvas' = created + 1
          /\ Returns(Ok(Unit))
          /\ UNCHANGED <<event_pump, pumps, queue, target>>

\* A bug create_window could have: the window field is cleared when the
\* backend fails, the canvas field is not.
create_window_dropping_window ==
    /\ Entered("create_window")
    /\ \/ /\ backend' = "err"
          /\ window' = None
          /\ Returns(Err(BackendMsg, <<>>))
          /\ UNCHANGED <<canvas, event_pump, sdl>>
       \/ /\ created < MaxWindows
          /\ backend' = "ok"
          /\ created' = created + 1
          /\ window' = created + 1
          /\ canvas' = created + 1
          /\ Returns(Ok(Unit))
          /\ UNCHANGED <<event_pump, pumps, queue, target>>

\* SDLContext::create_window.  video() or build() may fail: the error is
\* returned and nothing is stored.  Otherwise the window is turned into a
\* canvas and both fields are overwritten with the new pair.  into_canvas
\* cannot return an error: when it fails the call unwinds with the guard
\* held, which poisons the mutex and drops the guard; nothing was stored yet.
create_window ==
    /\ Entered("create_window")
    /\ \/ /\ backend' = "err"
          /\ Returns(Err(BackendMsg, <<>>))
          /\ UNCHANGED <<ctx, sdl>>
       \/ /\ created < MaxWindows
          /\ backend' = "ok"
          /\ created' = created + 1
          /\ window' = created + 1
          /\ canvas' = created + 1
          /\ Returns(Ok(Unit))
          /\ UNCHANGED <<event_pump, pumps, queue, target>>
       \/ /\ backend' = "panic"
          /\ ret' = Panicked
          /\ out' = Panicked
          /\ hwCalls' = hwCalls + 1
          /\ poisoned' = TRUE
          /\ lockHeld' = FALSE
          /\ releases' = releases + 1
          /\ pc' = "idle"
          /\ cur' = [op |-> cur.op, arg |-> <<>>]
          /\ UNCHANGED <<ctx, sdl, acquisitions>>

\* A bug a canvas method could have: without a canvas it does nothing and
\* reports success.
DrawAlways_silently(op) ==
    /\ Entered(op)
    /\ IF canvas # None
       THEN /\ backend' = "ok"
            /\ target' = canvas
            /\ Returns(Ok(Unit))
            /\ UNCHANGED <<ctx, created, pumps, queue>>
       ELSE /\ Returns(Ok(Unit))
            /\ UNCHANGED <<ctx, sdl, backend>>

\* A canvas method that cannot fail (set_draw_color, clear, present).
DrawAlways(op) ==
    /\ Entered(op)
    /\ IF canvas # None
       THEN /\ backend' = "ok"
            /\ target' = canvas
            /\ Returns(Ok(Unit))
            /\ UNCHANGED <<ctx, created, pumps, queue>>
       ELSE /\ Returns(Err(CanvasMsg, <<>>))
            /\ UNCHANGED <<ctx, sdl, backend>>

\* A canvas method whose backend call may fail (draw_rect, fill_rect,
\* draw_point, draw_line): `.map_err(|e| e.to_string())?`.
DrawFallible(op) ==
    /\ Entered(op)
    /\ IF canvas # None
       THEN \/ /\ backend' = "ok"
               /\ target' = canvas
               /\ Returns(Ok(Unit))
               /\ UNCHANGED <<ctx, created, pumps, queue>>
            \/ /\ backend' = "err"
               /\ Returns(Err(BackendMsg, <<>>))
               /\ UNCHANGED <<ctx, sdl>>
       ELSE /\ Returns(Err(CanvasMsg, <<>>))
            /\ UNCHANGED <<ctx, sdl, backend>>

set_draw_color == DrawAlways("set_draw_color")

clear == DrawAlways("clear")

draw_rect == DrawFallible("draw_rect")

fill_rect == DrawFallible("fill_rect")

draw_point == DrawFallible("draw_point")

draw_line == DrawFallible("draw_line")

present == DrawAlways("present")

\* SDLContext::init_event_pump: the pump the backend hands out is stored over
\* whatever was stored; a backend error is returned and nothing is stored.
init_event_pump ==
    /\ Entered("init_event_pump")
    /\ \/ /\ pumps < MaxPumps
          /\ backend' = "ok"
          /\ pumps' = pumps + 1
          /\ event_pump' = pumps + 1
          /\ Returns(Ok(Unit))
          /\ UNCHANGED <<window, canvas, created, queue, target>>
       \/ /\ backend' = "err"
          /\ Returns(Err(BackendMsg, <<>>))
          /\ UNCHANGED <<ctx, sdl>>

\* A bug poll_event could have: it drains the queue (`for event in
\* event_pump.poll_iter()`) and reports whether a Quit was among the events.
poll_event_draining ==
    /\ Entered("poll_event")
    /\ IF event_pump # None
       THEN /\ backend' = "ok"
            /\ queue' = <<>>
            /\ Returns(Ok(BoolV(\A i \in 1..Len(queue) : queue[i] # "Quit")))
            /\ UNCHANGED <<ctx, created, pumps, target>>
       ELSE /\ Returns(Err(PumpMsg, <<>>))
            /\ UNCHANGED <<ctx, sdl, backend>>

\* SDLContext::poll_event: the pump's poll_event takes the oldest pending
\* event, if any; Quit gives false, anything else and no event give true.
poll_event ==
    /\ Entered("poll_event")
    /\ IF event_pump # None
       THEN /\ backend' = "ok"
            /\ IF queue = <<>>
               THEN /\ Returns(Ok(BoolV(TRUE)))
                    /\ UNCHANGED <<ctx, sdl>>
               ELSE /\ queue' = Tail(queue)
                    /\ Returns(Ok(BoolV(Head(queue) # "Quit")))
                    /\ UNCHANGED <<ctx, created, pumps, target>>
       ELSE /\ Returns(Err(PumpMsg, <<>>))
            /\ UNCHANGED <<ctx, sdl, backend>>

\* The match of is_key_down on the lowered name.
Scancode(name) ==
    CASE name = <<"s", "p", "a", "c", "e">> -> "Space"
      [] name = <<"l", "e", "f", "t">> -> "Left"
      [] name = <<"r", "i", "g", "h", "t">> -> "Right"
      [] name = <<"u", "p">> -> "Up"
      [] name = <<"d", "o", "w", "n">> -> "Down"
      [] OTHER -> "unsupported"

\* The match of is_mouse_button_down on the lowered name.
MouseButton(name) ==
    CASE name = <<"l", "e", "f", "t">> -> "Left"
      [] name = <<"r", "i", "g", "h", "t">> -> "Right"
      [] name = <<"m", "i", "d", "d", "l", "e">> -> "Middle"
      [] OTHER -> "unsupported"

\* A bug is_key_down could have: the name is matched before the pump is
\* looked at.
is_key_down_matching_first ==
    /\ Entered("is_key_down")
    /\ IF Scancode(to_lowercase(cur.arg)) = "unsupported"
       THEN /\ Returns(Err(KeyMsg, cur.arg))
            /\ UNCHANGED <<ctx, sdl, backend>>
       ELSE IF event_pump # None
            THEN \E pressed \in SUBSET Scancodes :
                 /\ backend' = "ok"
                 /\ Returns(Ok(BoolV(Scancode(to_lowercase(cur.arg)) \in pressed)))
                 /\ UNCHANGED <<ctx, sdl>>
            ELSE /\ Returns(Err(PumpMsg, <<>>))
                 /\ UNCHANGED <<ctx, sdl, backend>>

\* SDLContext::is_key_down: the pump is checked first, then the name; the
\* keyboard state is read from the backend at the call.
is_key_down ==
    /\ Entered("is_key_down")
    /\ IF event_pump # None
       THEN IF Scancode(to_lowercase(cur.arg)) = "unsupported"
            THEN /\ Returns(Err(KeyMsg, cur.arg))
                 /\ UNCHANGED <<ctx, sdl, backend>>
            ELSE \E pressed \in SUBSET Scancodes :
                 /\ backend' = "ok"
                 /\ Returns(Ok(BoolV(Scancode(to_lowercase(cur.arg)) \in pressed)))
                 /\ UNCHANGED <<ctx, sdl>>
       ELSE /\ Returns(Err(PumpMsg, <<>>))
            /\ UNCHANGED <<ctx, sdl, backend>>

\* SDLContext::is_mouse_button_down: the pump is checked first, the mouse
\* state is read, then the name is matched.
is_mouse_button_down ==
    /\ Entered("is_mouse_button_down")
    /\ IF event_pump # None
       THEN \E pressed \in SUBSET MouseButtons :
            /\ backend' = "ok"
            /\ IF MouseButton(to_lowercase(cur.arg)) = "unsupported"
               THEN Returns(Err(ButtonMsg, cur.arg))
               ELSE Returns(Ok(BoolV(MouseButton(to_lowercase(cur.arg)) \in pressed)))
            /\ UNCHANGED <<ctx, sdl>>
       ELSE /\ Returns(Err(PumpMsg, <<>>))
            /\ UNCHANGED <<ctx, sdl, backend>>

\* SDLContext::get_mouse_position: the cursor's coordinates, read at the call.
get_mouse_position ==
    /\ Entered("get_mouse_position")
    /\ IF event_pump # None
       THEN \E x \in Coords, y \in Coords :
            /\ backend' = "ok"
            /\ Returns(Ok(PairV(x, y)))
            /\ UNCHANGED <<ctx, sdl>>
       ELSE /\ Returns(Err(PumpMsg, <<>>))
            /\ UNCHANGED <<ctx, sdl, backend>>

\* SDLContext::delay: sleeps (with the guard held) and returns Ok.
delay ==
    /\ Entered("delay")
    /\ Returns(Ok(Unit))
    /\ UNCHANGED <<ctx, sdl, backend>>

\* The `rand` closure: it captures no handle and takes no lock.  gen_range
\* returns a value of min..=max and panics on an empty range (min > max).
\* No guard is held, so the unwinding leaves the mutex as it was.
rand(a) ==
    /\ pc = "idle"
    /\ cur' = [op |-> "rand", arg |-> a]
    /\ IF a[1] <= a[2]
       THEN \E v \in a[1]..a[2] : out' = Ok(IntV(v))
       ELSE out' = Panicked
    /\ ret' = NoResult
    /\ backend' = "none"
    /\ acquisitions' = 0
    /\ hwCalls' = 0
    /\ releases' = 0
    /\ UNCHANGED <<ctx, sdl, mutex, pc>>

\* The user and the operating system: an event becomes pending.  The backend
\* collects events when it is polled, so an arrival between two calls stands
\* for every arrival.
post_event(e) ==
    /\ pc = "idle"
    /\ Len(queue) < MaxQueue
    /\ queue' = Append(queue, e)
    /\ UNCHANGED <<ctx, created, pumps, target, backend, mutex, pc, cur, ret, out,
                   counts>>

Next ==
    \/ \E c \in Calls : lock(c)
    \/ lock_failed
    \/ create_window
    \/ set_draw_color
    \/ clear
    \/ draw_rect
    \/ fill_rect
    \/ draw_point
    \/ draw_line
    \/ present
    \/ init_event_pump
    \/ poll_event
    \/ is_key_down
    \/ is_mouse_button_down
    \/ get_mouse_position
    \/ delay
    \/ bridge_return
    \/ \E a \in RandArgs : rand(a)
    \/ \E e \in Events : post_event(e)

Spec == Init /\ [][Next]_vars

\* ------------------------------------------------------------ properties
\* The closures that take the lock.
BridgedOps == DrawOps \cup InputOps \cup {"create_window", "init_event_pump", "delay"}

\* The method named by the call in flight is entered in this step.
MethodStep(op) == Entered(op) /\ hwCalls' = hwCalls + 1

\* C1: as long as no create_window call has succeeded, every drawing method
\* (set_draw_color, clear, draw_rect, fill_rect, draw_point, draw_line,
\* present) that is entered returns Err("Canvas not initialized"), and the
\* script receives a runtime error with that message; whatever else was
\* called before (init_event_pump, failed create_window calls) does not matter.
C1_CanvasNotInitialized ==
    /\ (pc = "called" /\ cur.op \in DrawOps /\ created = 0)
          => ret = Err(CanvasMsg, <<>>)
    /\ (pc = "idle" /\ cur.op \in DrawOps /\ created = 0 /\ hwCalls = 1)
          => out = ErrorRuntime(CanvasMsg, <<>>)

C1_Witness ==
    /\ pc = "idle"
    /\ cur.op = "present"
    /\ created = 0
    /\ event_pump # None
    /\ hwCalls = 1
    /\ out = ErrorRuntime(CanvasMsg, <<>>)

\* C2: as long as no init_event_pump call has succeeded, every input method
\* (poll_event, is_key_down, is_mouse_button_down, get_mouse_position) that is
\* entered returns Err("Event pump not initialized"), for every argument,
\* unsupported names included, whether or not a window exists.
C2_PumpNotInitialized ==
    /\ (pc = "called" /\ cur.op \in InputOps /\ pumps = 0)
          => ret = Err(PumpMsg, <<>>)
    /\ (pc = "idle" /\ cur.op \in InputOps /\ pumps = 0 /\ hwCalls = 1)
          => out = ErrorRuntime(PumpMsg, <<>>)

C2_Witness ==
    /\ pc = "called"
    /\ cur = [op |-> "is_key_down", arg |-> <<"e", "n", "t", "e", "r">>]
    /\ pumps = 0
    /\ window # None
    /\ ret = Err(PumpMsg, <<>>)

\* C3: with the event pump initialized, a poll_event call removes exactly the
\* oldest pending event when there is one and nothing when there is none, the
\* other events keep their order, the result is Ok(true) or Ok(false), and it
\* is Ok(false) exactly when the removed event was Quit.
C3_PollEvent ==
    [][(MethodStep("poll_event") /\ event_pump # None) =>
          /\ Len(queue') = IF queue = <<>> THEN 0 ELSE Len(queue) - 1
          /\ \A i \in 1..Len(queue') : queue'[i] = queue[i + 1]
          /\ ret' \in {Ok(BoolV(TRUE)), Ok(BoolV(FALSE))}
          /\ (ret' = Ok(BoolV(FALSE))) <=> (queue # <<>> /\ queue[1] = "Quit")]_vars

C3_Witness ==
    /\ pc = "called"
    /\ cur.op = "poll_event"
    /\ ret = Ok(BoolV(FALSE))
    /\ queue = <<"Other">>

\* The spellings of the supported names, by upper- and lower-casing letters.
KeySpellings == UNION { CaseVariants(n) : n \in KeyNames }
ButtonSpellings == UNION { CaseVariants(n) : n \in ButtonNames }

\* What C4 asks of a finished is_key_down or is_mouse_button_down call.
NamesValidated ==
    /\ (pc = "called" /\ cur.op = "is_key_down") =>
          IF cur.arg \in KeySpellings
          THEN ret.tag = "Ok"
          ELSE ret = Err(KeyMsg, cur.arg)
    /\ (pc = "called" /\ cur.op = "is_mouse_button_down") =>
          IF cur.arg \in ButtonSpellings
          THEN ret.tag = "Ok"
          ELSE ret = Err(ButtonMsg, cur.arg)

\* C4 as stated: for every spelling of a supported key name is_key_down does
\* not fail, for every spelling of a supported button name
\* is_mouse_button_down does not fail, and for any other string each returns
\* the validation error that names the string.
C4_AsStated == NamesValidated

\* C4 as amended: the same, for calls made with the event pump initialized
\* (without it both methods return the "not initialized" error first).
C4_NamesValidated == event_pump # None => NamesValidated

C4_Witness ==
    /\ pc = "called"
    /\ cur = [op |-> "is_key_down", arg |-> <<"S", "p", "A", "c", "E">>]
    /\ event_pump # None
    /\ ret = Ok(BoolV(TRUE))

\* C5: once a create_window call has succeeded the canvas is never absent
\* again, and every set_draw_color, clear and present that is entered returns
\* Ok, whatever was called in between.
C5_CanvasStays ==
    created >= 1 =>
       /\ canvas # None
       /\ (pc = "called" /\ cur.op \in {"set_draw_color", "clear", "present"})
             => ret = Ok(Unit)
       /\ (pc = "idle" /\ cur.op \in {"set_draw_color", "clear", "present"}
             /\ hwCalls = 1) => out = Ok(Unit)

C5_Witness ==
    /\ created >= 1
    /\ pc = "idle"
    /\ cur.op = "present"
    /\ hwCalls = 1
    /\ out = Ok(Unit)
    /\ target = canvas

\* The stored pair is replaced by the pair just built.
Replaced ==
    /\ ret' = Ok(Unit)
    /\ window' = created'
    /\ canvas' = created'
    /\ created' = created + 1
    /\ window' # window
    /\ canvas' # canvas

\* A drawing call that succeeded acted on the surface of the window built last.
DrawsOnNewest ==
    (pc = "called" /\ cur.op \in DrawOps /\ ret = Ok(Unit)) =>
       (target = created /\ target = canvas /\ target = window)

\* C6: a create_window call made while a window is stored must succeed and
\* replace the stored window and canvas with the newly built pair, so that
\* drawing calls act on the new surface and the old pair is no longer stored;
\* it must not crash.  Spec 4.1 lets create_window fail when the backend
\* reports that it cannot create the window, so that one failure (the
\* backend's error returned, the old pair kept) is not held against the
\* claim here; the claim as written allows no failure at all, so whatever
\* violates this formula violates it as well.  No other outcome is allowed:
\* in particular the call must not unwind.
C6_ReplacesWithoutCrash ==
    /\ []DrawsOnNewest
    /\ [][(MethodStep("create_window") /\ window # None) =>
             \/ backend' = "ok" /\ Replaced
             \/ backend' = "err" /\ ret' = Err(BackendMsg, <<>>) /\ UNCHANGED ctx]_vars

\* The lock is held by the call in flight and by nothing else, and a method
\* is only ever entered under it.
LockDiscipline ==
    /\ lockHeld <=> pc \in {"locked", "called"}
    /\ (lockHeld => acquisitions = 1 /\ releases = 0)
    /\ (pc = "locked" => hwCalls = 0)
    /\ (pc = "called" => hwCalls = 1)

\* A bridged call has returned a value or an error to the script.
Returned == pc = "idle" /\ cur.op \in BridgedOps /\ out.tag \in {"Ok", "ErrorRuntime"}

\* C7 as stated: every bridged call takes the lock once, enters one method
\* while holding it and releases it once; the lock has one holder at most and
\* is free whenever a bridged call has returned a value or an error.
C7_AsStated ==
    /\ LockDiscipline
    /\ Returned => (acquisitions = 1 /\ hwCalls = 1 /\ releases = 1)

\* C7 as amended: every bridged call takes the lock once and releases it
\* once, and enters one method while holding it, except that it enters none
\* when the lock is found poisoned; the lock has one holder at most and is
\* free whenever a bridged call has returned a value or an error.
C7_OneAcquisition ==
    /\ LockDiscipline
    /\ Returned =>
          /\ acquisitions = 1
          /\ releases = 1
          /\ hwCalls = IF out = ErrorRuntime(PoisonMsg, <<>>) THEN 0 ELSE 1

C7_Witness ==
    /\ pc = "idle"
    /\ cur.op = "draw_rect"
    /\ out = ErrorRuntime(BackendMsg, <<>>)
    /\ acquisitions = 1
    /\ hwCalls = 1
    /\ releases = 1
    /\ ~lockHeld

\* C8: once the lock is poisoned it stays poisoned, no method is entered any
\* more, the context is not touched, and every bridged call (delay and
\* init_event_pump included) ends with the runtime error that carries the
\* poison message.
C8_PoisonIsFinal ==
    [][poisoned =>
          /\ poisoned'
          /\ hwCalls' <= hwCalls
          /\ UNCHANGED <<ctx, created, pumps, target>>
          /\ (pc = "locked" => (pc' = "idle" /\ out' = ErrorRuntime(PoisonMsg, <<>>)))
          /\ (out'.tag = "Ok" => cur'.op = "rand")]_vars

C8_Witness ==
    /\ poisoned
    /\ pc = "idle"
    /\ cur.op = "delay"
    /\ out = ErrorRuntime(PoisonMsg, <<>>)
    /\ hwCalls = 0
    /\ ~lockHeld

\* C9: rand(min, max) with min <= max returns a value between min and max, it
\* takes no lock and enters no method, and with min > max it returns an error
\* rather than a value.
C9_Rand ==
    cur.op = "rand" =>
       /\ acquisitions = 0
       /\ hwCalls = 0
       /\ IF cur.arg[1] <= cur.arg[2]
          THEN /\ out.tag = "Ok"
               /\ out.val[1] = "int"
               /\ cur.arg[1] <= out.val[2]
               /\ out.val[2] <= cur.arg[2]
          ELSE out.tag \in {"Err", "ErrorRuntime"}

\* C10: a method that returns an error leaves window, canvas and event pump as
\* they were (a failing create_window keeps the stored pair), the window is
\* stored exactly when the canvas is, and the event pump changes only in
\* init_event_pump.
C10_ErrorsChangeNothing ==
    /\ [](window = None <=> canvas = None)
    /\ [][/\ (pc = "locked" /\ pc' = "called" /\ ret'.tag = "Err") => UNCHANGED ctx
          /\ (pc # "idle" /\ pc' = "idle" /\ out'.tag = "ErrorRuntime") => UNCHANGED ctx
          /\ event_pump' # event_pump => MethodStep("init_event_pump")]_vars

C10_Witness ==
    /\ pc = "called"
    /\ cur.op = "create_window"
    /\ ret = Err(BackendMsg, <<>>)
    /\ window # None
    /\ window = canvas
    /\ event_pump # None

====
